---- MODULE Spec2Model ----
(***************************************************************************)
(* The relational store declared by user/models.py and address/models.py:  *)
(* the tables User, Address, City and the join table of                    *)
(* Address.gangsta_users, the write operations the ORM offers on them      *)
(* (create, save, delete, add/remove on the many-to-many set) and the      *)
(* filtered manager User.stl_objects.                                      *)
(*                                                                         *)
(* The free-text and numeric columns that carry no constraint and that no  *)
(* query reads (User.name, code_name, date, base_level, power_level,       *)
(* update_count, Address.street) are not part of the state.                *)
(*                                                                         *)
(* The declarations fix the framework generation: get_query_set is the     *)
(* manager hook, and ForeignKey takes no on_delete argument, so deletion   *)
(* cascades along both foreign keys and the manager's queries go through   *)
(* get_query_set.                                                          *)
(*                                                                         *)
(* Three specifications: Spec is the whole store; SpecOwnership is the     *)
(* chain User <- Address <- City with the query over it; SpecMembership is *)
(* User, Address and the gangsta_users sets.  The two smaller ones leave   *)
(* out the operations on the part of the store their properties do not     *)
(* depend on, and stay explorable with one more row per table.             *)
(***************************************************************************)
EXTENDS Integers, FiniteSets, Sequences, Bags, TLC

\* ------------------------------------------------------------------------
\* Bounds of the model
\* ------------------------------------------------------------------------
MaxUsers == 2
MaxAddresses == 2
MaxCities == 2

\* ------------------------------------------------------------------------
\* user/models.py constants
\* ------------------------------------------------------------------------
MALE == 1
FEMALE == 2
NA == 3
ALIEN == 4

GENDER_OPTIONS == {<<MALE, "Male">>, <<FEMALE, "Female">>, <<NA, "N/A">>, <<ALIEN, "Alien">>}

\* Primary keys handed out by the store, and the keys a caller may name
\* (one more than can exist, so that a dangling reference can be named).
UserIds == 1..MaxUsers
AddressIds == 1..MaxAddresses
CityIds == 1..MaxCities
UserRefs == 1..(MaxUsers + 1)
AddressRefs == 1..(MaxAddresses + 1)

\* Values a caller may pass for gender (a code of GENDER_OPTIONS, and an
\* integer that is none); kwargs is {} when gender is omitted.
GenderInputs == {MALE, ALIEN + 1}
GenderKwargs == {{}} \cup {{g} : g \in GenderInputs}

\* City names, as character sequences.
CityNames ==
    { <<"S", "T", "L">>,
      <<"S", "t", "l">>,
      <<"s", "t", "l">>,
      <<"S", "t", ".", " ", "L", "o", "u", "i", "s">>,
      <<"C", "h", "i", "c", "a", "g", "o">> }

\* ------------------------------------------------------------------------
\* iexact: the case-insensitive exact match of the lookup name__iexact
\* ------------------------------------------------------------------------
UpperChar(ch) ==
    CASE ch = "a" -> "A" [] ch = "c" -> "C" [] ch = "g" -> "G"
      [] ch = "h" -> "H" [] ch = "i" -> "I" [] ch = "l" -> "L"
      [] ch = "o" -> "O" [] ch = "s" -> "S" [] ch = "t" -> "T"
      [] ch = "u" -> "U" [] OTHER -> ch

Upper(s) == [i \in DOMAIN s |-> UpperChar(s[i])]

iexact(value, pattern) == Upper(value) = Upper(pattern)

VARIABLES
    users,          \* table User: pk -> row
    addresses,      \* table Address: pk -> row (user is the owner's pk)
    cities,         \* table City: pk -> row
    gangsta_users,  \* join table of Address.gangsta_users: set of <<address pk, user pk>>
    nextUserId,     \* next primary key of each table
    nextAddressId,
    nextCityId,
    call,           \* the operation whose outcome the caller holds: its name, the reference it was
                    \* given (the parent row's pk, or the Address of an operation
                    \* on gangsta_users), the gender keyword of a User creation
    error,          \* what that operation raised ("" when it returned)
    result          \* what that operation returned: the rows of a query, as a
                    \* bag of user pks (empty for the operations that return nothing)

store == <<users, addresses, cities, gangsta_users>>
sequences == <<nextUserId, nextAddressId, nextCityId>>
vars == <<users, addresses, cities, gangsta_users, nextUserId, nextAddressId,
          nextCityId, call, error, result>>

NoCall == [op |-> "", ref |-> 0, gender |-> {}]
Call(op, ref, kwargs) == [op |-> op, ref |-> ref, gender |-> kwargs]

\* Function f without the keys in S.
Without(f, S) == [k \in DOMAIN f \ S |-> f[k]]
\* Function f with key k bound to v.
With(f, k, v) == [x \in DOMAIN f \cup {k} |-> IF x = k THEN v ELSE f[x]]

\* Operations are synchronous calls, one at a time: the caller makes the next
\* one after it has taken the outcome of the last.
Idle == call = NoCall

\* An operation that returns nothing and raises nothing.
Returned(op, ref, kwargs) ==
    /\ call' = Call(op, ref, kwargs)
    /\ error' = ""
    /\ result' = EmptyBag

\* An operation that raises.
Raised(op, ref, exception) ==
    /\ call' = Call(op, ref, {})
    /\ error' = exception
    /\ result' = EmptyBag

Init ==
    /\ users = <<>>
    /\ addresses = <<>>
    /\ cities = <<>>
    /\ gangsta_users = {}
    /\ nextUserId = 1
    /\ nextAddressId = 1
    /\ nextCityId = 1
    /\ call = NoCall
    /\ error = ""
    /\ result = EmptyBag

\* ------------------------------------------------------------------------
\* User
\* ------------------------------------------------------------------------
\* Variant: the default is the first code of GENDER_OPTIONS.
GenderDefaultFirstOption == MALE

\* gender = models.IntegerField(choices=GENDER_OPTIONS, default=NA)
GenderDefault == NA

\* The value save() writes to the gender column: the default when the caller
\* gave none, the caller's value as it is otherwise (choices are consulted by
\* form and full_clean validation only, never by save()).
GenderColumn(kwargs) ==
    IF kwargs = {} THEN GenderDefault ELSE CHOOSE g \in kwargs : TRUE

\* User.objects.create(...) / User(...).save()
CreateUser(kwargs) ==
    /\ Idle
    /\ nextUserId <= MaxUsers
    /\ users' = With(users, nextUserId, [gender |-> GenderColumn(kwargs)])
    /\ nextUserId' = nextUserId + 1
    /\ Returned("CreateUser", 0, kwargs)
    /\ UNCHANGED <<addresses, cities, gangsta_users, nextAddressId, nextCityId>>

\* u.gender = g; u.save()
UpdateUser(u, g) ==
    /\ Idle
    /\ u \in DOMAIN users
    /\ users' = [users EXCEPT ![u].gender = GenderColumn({g})]
    /\ Returned("UpdateUser", 0, {})
    /\ UNCHANGED <<addresses, cities, gangsta_users, sequences>>

\* The rows a cascading delete collects: the Addresses whose user is among U,
\* the Cities whose address is among A.
AddressesOf(U) == {a \in DOMAIN addresses : addresses[a].user \in U}
CitiesOf(A) == {c \in DOMAIN cities : cities[c].address \in A}

\* Variant: the delete removes the User row and the join rows that name it,
\* and follows no foreign key.
DeleteUserOnly(u) ==
    /\ Idle
    /\ u \in DOMAIN users
    /\ users' = Without(users, {u})
    /\ gangsta_users' = {p \in gangsta_users : p[2] # u}
    /\ Returned("DeleteUser", 0, {})
    /\ UNCHANGED <<addresses, cities, sequences>>

\* u.delete(): the collector follows the cascading foreign keys that point at
\* the rows being deleted (Address.user, then City.address, and both columns
\* of the gangsta_users join table) and deletes what it finds with them.
DeleteUser(u) ==
    /\ Idle
    /\ u \in DOMAIN users
    /\ LET owned == AddressesOf({u})
       IN /\ users' = Without(users, {u})
          /\ addresses' = Without(addresses, owned)
          /\ cities' = Without(cities, CitiesOf(owned))
          /\ gangsta_users' = {p \in gangsta_users : p[1] \notin owned /\ p[2] # u}
    /\ Returned("DeleteUser", 0, {})
    /\ UNCHANGED sequences

\* ------------------------------------------------------------------------
\* Address
\* ------------------------------------------------------------------------
\* Variant: the user column carries no foreign-key constraint.
CreateAddressUnchecked(ref) ==
    /\ Idle
    /\ nextAddressId <= MaxAddresses
    /\ addresses' = With(addresses, nextAddressId, [user |-> ref])
    /\ nextAddressId' = nextAddressId + 1
    /\ Returned("CreateAddress", ref, {})
    /\ UNCHANGED <<users, cities, gangsta_users, nextUserId, nextCityId>>

\* Address.objects.create(user_id=ref): user = models.ForeignKey(User) is a
\* NOT NULL column with a foreign-key constraint on User.
CreateAddress(ref) ==
    /\ Idle
    /\ nextAddressId <= MaxAddresses
    /\ IF ref \in DOMAIN users
       THEN /\ addresses' = With(addresses, nextAddressId, [user |-> ref])
            /\ nextAddressId' = nextAddressId + 1
            /\ Returned("CreateAddress", ref, {})
       ELSE /\ Raised("CreateAddress", ref, "IntegrityError")
            /\ UNCHANGED <<addresses, nextAddressId>>
    /\ UNCHANGED <<users, cities, gangsta_users, nextUserId, nextCityId>>

\* a.user_id = ref; a.save()
UpdateAddress(a, ref) ==
    /\ Idle
    /\ a \in DOMAIN addresses
    /\ IF ref \in DOMAIN users
       THEN /\ addresses' = [addresses EXCEPT ![a].user = ref]
            /\ Returned("UpdateAddress", ref, {})
       ELSE /\ Raised("UpdateAddress", ref, "IntegrityError")
            /\ UNCHANGED addresses
    /\ UNCHANGED <<users, cities, gangsta_users, sequences>>

\* Variant: the delete removes the Address row and its join rows, and leaves
\* the Cities that point at it.
DeleteAddressOnly(a) ==
    /\ Idle
    /\ a \in DOMAIN addresses
    /\ addresses' = Without(addresses, {a})
    /\ gangsta_users' = {p \in gangsta_users : p[1] # a}
    /\ Returned("DeleteAddress", 0, {})
    /\ UNCHANGED <<users, cities, sequences>>

\* a.delete()
DeleteAddress(a) ==
    /\ Idle
    /\ a \in DOMAIN addresses
    /\ addresses' = Without(addresses, {a})
    /\ cities' = Without(cities, CitiesOf({a}))
    /\ gangsta_users' = {p \in gangsta_users : p[1] # a}
    /\ Returned("DeleteAddress", 0, {})
    /\ UNCHANGED <<users, sequences>>

\* a.gangsta_users.add(user): a row of the join table, unless it is there.
AddGangsta(a, ref) ==
    /\ Idle
    /\ a \in DOMAIN addresses
    /\ IF ref \in DOMAIN users
       THEN /\ gangsta_users' = gangsta_users \cup {<<a, ref>>}
            /\ Returned("AddGangsta", a, {})
       ELSE /\ Raised("AddGangsta", a, "IntegrityError")
            /\ UNCHANGED gangsta_users
    /\ UNCHANGED <<users, addresses, cities, sequences>>

\* Variant: the delete on the join table is filtered by the user alone.
RemoveGangstaEverywhere(a, u) ==
    /\ Idle
    /\ a \in DOMAIN addresses
    /\ u \in DOMAIN users
    /\ gangsta_users' = {p \in gangsta_users : p[2] # u}
    /\ Returned("RemoveGangsta", a, {})
    /\ UNCHANGED <<users, addresses, cities, sequences>>

\* a.gangsta_users.remove(user)
RemoveGangsta(a, u) ==
    /\ Idle
    /\ a \in DOMAIN addresses
    /\ u \in DOMAIN users
    /\ gangsta_users' = gangsta_users \ {<<a, u>>}
    /\ Returned("RemoveGangsta", a, {})
    /\ UNCHANGED <<users, addresses, cities, sequences>>

\* ------------------------------------------------------------------------
\* City
\* ------------------------------------------------------------------------
\* City.objects.create(address_id=ref, name=name): address =
\* models.ForeignKey(Address) is a NOT NULL column with a foreign-key
\* constraint on Address.
CreateCity(ref, name) ==
    /\ Idle
    /\ nextCityId <= MaxCities
    /\ IF ref \in DOMAIN addresses
       THEN /\ cities' = With(cities, nextCityId, [address |-> ref, name |-> name])
            /\ nextCityId' = nextCityId + 1
            /\ Returned("CreateCity", ref, {})
       ELSE /\ Raised("CreateCity", ref, "IntegrityError")
            /\ UNCHANGED <<cities, nextCityId>>
    /\ UNCHANGED <<users, addresses, gangsta_users, nextUserId, nextAddressId>>

\* c.name = name; c.save()
RenameCity(c, name) ==
    /\ Idle
    /\ c \in DOMAIN cities
    /\ cities' = [cities EXCEPT ![c].name = name]
    /\ Returned("RenameCity", 0, {})
    /\ UNCHANGED <<users, addresses, gangsta_users, sequences>>

\* c.address_id = ref; c.save()
UpdateCity(c, ref) ==
    /\ Idle
    /\ c \in DOMAIN cities
    /\ IF ref \in DOMAIN addresses
       THEN /\ cities' = [cities EXCEPT ![c].address = ref]
            /\ Returned("UpdateCity", ref, {})
       ELSE /\ Raised("UpdateCity", ref, "IntegrityError")
            /\ UNCHANGED cities
    /\ UNCHANGED <<users, addresses, gangsta_users, sequences>>

\* c.delete()
DeleteCity(c) ==
    /\ Idle
    /\ c \in DOMAIN cities
    /\ cities' = Without(cities, {c})
    /\ Returned("DeleteCity", 0, {})
    /\ UNCHANGED <<users, addresses, gangsta_users, sequences>>

\* ------------------------------------------------------------------------
\* STLUserManger
\* ------------------------------------------------------------------------
\* Variant: the lookup path gangstas__city, along the join table of
\* Address.gangsta_users (related_name "gangstas") instead of Address.user.
gangstas__city ==
    {r \in (DOMAIN users) \X (DOMAIN addresses) \X (DOMAIN cities) :
        /\ <<r[2], r[1]>> \in gangsta_users
        /\ cities[r[3]].address = r[2]}

\* The lookup path address__city: from User along the reverse of Address.user
\* (query name "address") and the reverse of City.address (query name "city").
\* A reverse relation is many-valued, so each hop is a join: one row per
\* (user, address, city) that the foreign keys connect.
address__city ==
    {r \in (DOMAIN users) \X (DOMAIN addresses) \X (DOMAIN cities) :
        /\ addresses[r[2]].user = r[1]
        /\ cities[r[3]].address = r[2]}

\* Variant: the selection is made distinct.
SelectDistinct(rows) == [u \in {r[1] : r \in rows} |-> 1]

\* The users a set of joined rows selects, one copy per row.
Select(rows) ==
    LET selected == {r[1] : r \in rows}
    IN [u \in selected |-> Cardinality({r \in rows : r[1] = u})]

\* Variant: the manager's hook is not consulted, the query is the base
\* manager's: every User, once.
base_query_set == [u \in DOMAIN users |-> 1]

\* super(STLUserManger, self).get_query_set().filter(address__city__name__iexact='stl')
get_query_set ==
    Select({r \in address__city : iexact(cities[r[3]].name, <<"s", "t", "l">>)})

\* Variant: a query without rows raises, as a single-row get() does.
stl_objects_or_raise ==
    /\ Idle
    /\ result' = get_query_set
    /\ call' = Call("stl_objects", 0, {})
    /\ error' = IF get_query_set = EmptyBag THEN "DoesNotExist" ELSE ""
    /\ UNCHANGED <<store, sequences>>

\* User.stl_objects.all(), evaluated
stl_objects ==
    /\ Idle
    /\ result' = get_query_set
    /\ call' = Call("stl_objects", 0, {})
    /\ error' = ""
    /\ UNCHANGED <<store, sequences>>

\* The caller takes the outcome of the call.
Return ==
    /\ ~Idle
    /\ call' = NoCall
    /\ error' = ""
    /\ result' = EmptyBag
    /\ UNCHANGED <<store, sequences>>

Next ==
    \/ \E kwargs \in GenderKwargs : CreateUser(kwargs)
    \/ \E u \in UserIds, g \in GenderInputs : UpdateUser(u, g)
    \/ \E u \in UserIds : DeleteUser(u)
    \/ \E ref \in UserRefs : CreateAddress(ref)
    \/ \E a \in AddressIds, ref \in UserRefs : UpdateAddress(a, ref)
    \/ \E a \in AddressIds : DeleteAddress(a)
    \/ \E a \in AddressIds, ref \in UserRefs : AddGangsta(a, ref)
    \/ \E a \in AddressIds, u \in UserIds : RemoveGangsta(a, u)
    \/ \E ref \in AddressRefs, name \in CityNames : CreateCity(ref, name)
    \/ \E c \in CityIds, name \in CityNames : RenameCity(c, name)
    \/ \E c \in CityIds, ref \in AddressRefs : UpdateCity(c, ref)
    \/ \E c \in CityIds : DeleteCity(c)
    \/ stl_objects
    \/ Return

\* The whole store: every operation, every input.
Spec == Init /\ [][Next]_vars

\* The ownership chain User <- Address <- City and the query over it: every
\* operation on the three tables with the gender left to its default, and
\* none on the gangsta_users join table, which no foreign key of the chain
\* and no hop of the query's lookup path goes through.
NextOwnership ==
    \/ \E kwargs \in {{}} : CreateUser(kwargs)
    \/ \E u \in UserIds : DeleteUser(u)
    \/ \E ref \in UserRefs : CreateAddress(ref)
    \/ \E a \in AddressIds, ref \in UserRefs : UpdateAddress(a, ref)
    \/ \E a \in AddressIds : DeleteAddress(a)
    \/ \E ref \in AddressRefs, name \in CityNames : CreateCity(ref, name)
    \/ \E c \in CityIds, name \in CityNames : RenameCity(c, name)
    \/ \E c \in CityIds, ref \in AddressRefs : UpdateCity(c, ref)
    \/ \E c \in CityIds : DeleteCity(c)
    \/ stl_objects
    \/ Return

SpecOwnership == Init /\ [][NextOwnership]_vars

\* Users, Addresses and the gangsta_users sets: every operation on the two
\* tables and on the join table, every gender input, and no City.
NextMembership ==
    \/ \E kwargs \in GenderKwargs : CreateUser(kwargs)
    \/ \E u \in UserIds, g \in GenderInputs : UpdateUser(u, g)
    \/ \E u \in UserIds : DeleteUser(u)
    \/ \E ref \in UserRefs : CreateAddress(ref)
    \/ \E a \in AddressIds, ref \in UserRefs : UpdateAddress(a, ref)
    \/ \E a \in AddressIds : DeleteAddress(a)
    \/ \E a \in AddressIds, ref \in UserRefs : AddGangsta(a, ref)
    \/ \E a \in AddressIds, u \in UserIds : RemoveGangsta(a, u)
    \/ Return

SpecMembership == Init /\ [][NextMembership]_vars

\* ------------------------------------------------------------------------
\* Properties
\* ------------------------------------------------------------------------
\* The spellings of the city name that the properties count as "stl".
StlSpellings == {<<"S", "T", "L">>, <<"S", "t", "l">>, <<"s", "t", "l">>}

\* The (address, city) pairs that tie user u to a city spelled "stl" through
\* an Address that u owns.
StlPairs(u) ==
    {p \in (DOMAIN addresses) \X (DOMAIN cities) :
        /\ addresses[p[1]].user = u
        /\ cities[p[2]].address = p[1]
        /\ cities[p[2]].name \in StlSpellings}

StlUsers == {u \in DOMAIN users : StlPairs(u) # {}}

\* The members of a's gangsta_users set.
Gangstas(a) == {p[2] : p \in {q \in gangsta_users : q[1] = a}}

GangstaCall(c) == c.op \in {"AddGangsta", "RemoveGangsta"}

\* C1: what stl_objects returns is exactly the Users that own an Address with
\* a City named "STL", "Stl" or "stl"; the owners of Cities named "St. Louis"
\* or "Chicago" only, and every other User, are not returned.
C1_StlObjectsExact ==
    call.op = "stl_objects" => BagToSet(result) = StlUsers

C1_Witness ==
    /\ call.op = "stl_objects"
    /\ \E u1, u2 \in DOMAIN users, a1, a2 \in DOMAIN addresses, c1, c2 \in DOMAIN cities :
          /\ u1 # u2 /\ a1 # a2
          /\ addresses[a1].user = u1 /\ addresses[a2].user = u2
          /\ cities[c1] = [address |-> a1, name |-> <<"S", "T", "L">>]
          /\ cities[c2] = [address |-> a2, name |-> <<"C", "h", "i", "c", "a", "g", "o">>]
          /\ BagIn(u1, result)
          /\ ~BagIn(u2, result)

\* C2: every persisted User has a gender that is one of the four codes of
\* GENDER_OPTIONS.
C2_GenderAmongOptions ==
    \A u \in DOMAIN users : users[u].gender \in {1, 2, 3, 4}

\* C3: every persisted Address has one owner and the owner is a persisted
\* User; no delete leaves an Address whose owner is missing.
C3_OwnerExists ==
    \A a \in DOMAIN addresses : addresses[a].user \in DOMAIN users

C3_Witness ==
    /\ call.op = "DeleteUser"
    /\ Cardinality(DOMAIN users) = nextUserId - 2
    /\ Cardinality(DOMAIN addresses) = 1
    /\ nextAddressId = 3
    /\ Cardinality(DOMAIN cities) = nextCityId - 2

\* C4: every persisted City's address is a persisted Address; no delete
\* leaves a City whose address is missing.
C4_AddressExists ==
    \A c \in DOMAIN cities : cities[c].address \in DOMAIN addresses

C4_Witness ==
    /\ call.op = "DeleteAddress"
    /\ Cardinality(DOMAIN users) = nextUserId - 1
    /\ Cardinality(DOMAIN addresses) = 1
    /\ nextAddressId = 3
    /\ Cardinality(DOMAIN cities) = 1
    /\ nextCityId = 3

\* C5: creating an Address whose user is no persisted User, or a City whose
\* address is no persisted Address, raises IntegrityError and leaves the
\* persisted Users, Addresses, Cities and memberships as they were.
C5_DanglingCreateFails ==
    [][ (\/ call'.op = "CreateAddress" /\ call'.ref \notin DOMAIN users
         \/ call'.op = "CreateCity" /\ call'.ref \notin DOMAIN addresses)
        => (error' = "IntegrityError" /\ UNCHANGED store) ]_vars

C5_Witness ==
    /\ call.op = "CreateCity"
    /\ error = "IntegrityError"
    /\ call.ref \notin DOMAIN addresses
    /\ addresses # <<>>
    /\ cities # <<>>

\* C6: adding a User to or removing a User from an Address's gangsta_users
\* leaves every Address's owner as it was, and every other Address's
\* gangsta_users as it was.
C6_GangstaFrame ==
    [][ GangstaCall(call') =>
          /\ addresses' = addresses
          /\ \A a \in DOMAIN addresses \ {call'.ref} : Gangstas(a)' = Gangstas(a) ]_vars

C6_Witness ==
    /\ call.op = "RemoveGangsta"
    /\ error = ""
    /\ call.ref \in DOMAIN addresses
    /\ Gangstas(call.ref) = {}
    /\ \E a \in DOMAIN addresses \ {call.ref} :
          /\ addresses[call.ref].user \in Gangstas(a)
          /\ addresses[a].user # addresses[call.ref].user

\* C7: a User created without a gender is persisted with gender 3, the code
\* of 'N/A'.
C7_DefaultGender ==
    (call.op = "CreateUser" /\ call.gender = {}) =>
        /\ users[nextUserId - 1].gender = 3
        /\ <<users[nextUserId - 1].gender, "N/A">> \in GENDER_OPTIONS

C7_Witness ==
    /\ call.op = "CreateUser"
    /\ call.gender = {}
    /\ nextUserId = 3
    /\ users[1].gender # users[2].gender

\* C8: querying stl_objects changes no persisted User, Address, City or
\* membership and raises nothing; when no User matches it returns the empty
\* collection.
C8_QueryReadOnly ==
    [][ call'.op = "stl_objects" =>
          /\ UNCHANGED store
          /\ error' = ""
          /\ (StlUsers = {} => result' = EmptyBag) ]_vars

C8_Witness ==
    /\ call.op = "stl_objects"
    /\ result = EmptyBag
    /\ error = ""
    /\ Cardinality(DOMAIN cities) = 2
    /\ gangsta_users # {}

\* C9: stl_objects follows the owner relation only: a User that owns no
\* Address with a City spelled "stl" is not returned, whatever gangsta_users
\* sets the User is a member of, and adding or removing gangsta_users members
\* does not change what stl_objects returns.
C9_GangstasNotFollowed ==
    /\ [](call.op = "stl_objects" =>
            \A u \in DOMAIN users : StlPairs(u) = {} => ~BagIn(u, result))
    /\ [][ GangstaCall(call') => get_query_set' = get_query_set ]_vars

C9_Witness ==
    /\ call.op = "stl_objects"
    /\ \E u \in DOMAIN users, a \in DOMAIN addresses, c \in DOMAIN cities :
          /\ u \in Gangstas(a)
          /\ addresses[a].user # u
          /\ cities[c].address = a
          /\ cities[c].name \in StlSpellings
          /\ AddressesOf({u}) = {}
          /\ ~BagIn(u, result)
          /\ BagIn(addresses[a].user, result)

\* C10: a User that owns k (Address, City) pairs whose City is spelled "stl"
\* is returned k times by stl_objects.
C10_OneRowPerPair ==
    call.op = "stl_objects" =>
        \A u \in DOMAIN users : CopiesIn(u, result) = Cardinality(StlPairs(u))

C10_Witness ==
    /\ call.op = "stl_objects"
    /\ \E u \in DOMAIN users :
          /\ CopiesIn(u, result) = 2
          /\ Cardinality(AddressesOf({u})) = 1
====
